---- MODULE Spec2Model ----
(***************************************************************************)
(* A model of ha9class.py, the H/Alpha 9-zone classifier.                  *)
(*                                                                         *)
(* Floating point values are records [k, v]: k = "num" carries the value   *)
(* v in thousandths (0.5 is 500, 42.5 degrees is 42500), k = "nan" is NaN, *)
(* k = "pinf" / "ninf" are the two infinities.  Comparisons follow IEEE    *)
(* 754: every ordered comparison and every equality with a NaN is false.   *)
(*                                                                         *)
(* A raster grid is the row-major sequence of its pixels.  Python's None   *)
(* is the empty tuple for optional numbers and grids (Some(x) is <<x>>)    *)
(* and the string "None" for the optional geotransform and projection.     *)
(***************************************************************************)
EXTENDS Integers, Sequences, FiniteSets

VARIABLES
    pc,           \* position in the program
    args,         \* parsed command line: width, height and the four threshold pairs
    h_file,       \* the file at args.h_file
    alpha_file,   \* the file at args.alpha_file
    H,            \* main: H (clamped in place); classify_9zones: parameter H
    Alpha,        \* main: Alpha
    geo, proj, nodata,      \* what ensure_loaded returned for the H file
    geo2, proj2, nodata2,   \* what ensure_loaded returned for the Alpha file
    alpha_deg,    \* main: alpha_deg; classify_9zones: parameter alpha_deg
    nodata_mask,  \* main: nodata_mask; classify_9zones: argument nodata_mask
    mask_used,    \* classify_9zones: the local nodata_mask at line 149
    cls,          \* the class map returned by classify_9zones
    out_tif,      \* the GeoTIFF written, or None
    out_png,      \* the quicklook written, or None
    steps         \* the stages executed so far, in order

vars == <<pc, args, h_file, alpha_file, H, Alpha, geo, proj, nodata,
          geo2, proj2, nodata2, alpha_deg, nodata_mask, mask_used, cls,
          out_tif, out_png, steps>>

\* The number of pixels of the rasters of the pipeline and of the alpha grids.
GridLen == 2

------------------------------------------------------------------------------
(* Optional values and floats *)

None == <<>>
Some(x) == <<x>>

Num(n) == [k |-> "num", v |-> n]
NaN == [k |-> "nan", v |-> 0]
PosInf == [k |-> "pinf", v |-> 0]
NegInf == [k |-> "ninf", v |-> 0]

isnan(x) == x.k = "nan"
isfinite(x) == x.k = "num"

\* x <= y on floats
FLe(x, y) ==
    IF isnan(x) \/ isnan(y) THEN FALSE
    ELSE IF x.k = "ninf" \/ y.k = "pinf" THEN TRUE
    ELSE IF x.k = "pinf" \/ y.k = "ninf" THEN FALSE
    ELSE x.v <= y.v

\* x > y on floats
FGt(x, y) == ~isnan(x) /\ ~isnan(y) /\ ~FLe(x, y)

\* x < y on floats
FLt(x, y) == FGt(y, x)

\* x == y on floats
FEq(x, y) == ~isnan(x) /\ ~isnan(y) /\ x = y

Grid(S, n) == [1..n -> S]

------------------------------------------------------------------------------
(* classify_9zones *)

\* cls[mask] = val
AssignMasked(c, mask, val) == [i \in DOMAIN c |-> IF mask[i] THEN val ELSE c[i]]

\* H <= h_lo (mask_h_low_strict: H < h_lo)
mask_h_low_strict(Hg, h_lo) == [i \in DOMAIN Hg |-> FLt(Hg[i], h_lo)]
mask_h_low(Hg, h_lo) == [i \in DOMAIN Hg |-> FLe(Hg[i], h_lo)]

mask_h_med(Hg, h_lo, h_hi) ==
    [i \in DOMAIN Hg |-> FGt(Hg[i], h_lo) /\ FLe(Hg[i], h_hi)]

mask_h_high(Hg, h_hi) == [i \in DOMAIN Hg |-> FGt(Hg[i], h_hi)]

\* mask_h & (alpha_deg <= a_l)
sub_bin0(mask_h, ag, a_l) == [i \in DOMAIN ag |-> mask_h[i] /\ FLe(ag[i], a_l)]

\* mask_h & (alpha_deg > a_l) & (alpha_deg <= a_h)
sub_bin1(mask_h, ag, a_l, a_h) ==
    [i \in DOMAIN ag |-> mask_h[i] /\ FGt(ag[i], a_l) /\ FLe(ag[i], a_h)]

\* mask_h & (alpha_deg > a_h)
sub_bin2(mask_h, ag, a_h) == [i \in DOMAIN ag |-> mask_h[i] /\ FGt(ag[i], a_h)]

\* The three assignments of one H bin, in code order (bin_reversed: in the
\* opposite order).
bin_reversed(c, mask_h, ag, a_l, a_h, c0, c1, c2) ==
    AssignMasked(AssignMasked(AssignMasked(c,
        sub_bin2(mask_h, ag, a_h), c2),
        sub_bin1(mask_h, ag, a_l, a_h), c1),
        sub_bin0(mask_h, ag, a_l), c0)
assign_bin(c, mask_h, ag, a_l, a_h, c0, c1, c2) ==
    AssignMasked(AssignMasked(AssignMasked(c,
        sub_bin0(mask_h, ag, a_l), c0),
        sub_bin1(mask_h, ag, a_l, a_h), c1),
        sub_bin2(mask_h, ag, a_h), c2)

\* The local nodata_mask after lines 146-147.
derive_mask(Hg, ag, mask) ==
    IF mask = None
    THEN [i \in DOMAIN Hg |-> isnan(Hg[i]) \/ isnan(ag[i])]
    ELSE mask[1]

\* cls[nodata_mask] = 0 (keep_computed: the assignment left out)
keep_computed(c, mask) == c
apply_nodata(c, mask) == AssignMasked(c, mask, 0)

classify_9zones(Hg, ag, h_thresh, alpha_thresh_low_h, alpha_thresh_med_h, alpha_thresh_high_h, mask) ==
    LET h_lo == h_thresh[1]
        h_hi == h_thresh[2]
        c0 == [i \in DOMAIN Hg |-> 0]
        c1 == assign_bin(c0, mask_h_low(Hg, h_lo), ag,
                         alpha_thresh_low_h[1], alpha_thresh_low_h[2], 7, 4, 1)
        c2 == assign_bin(c1, mask_h_med(Hg, h_lo, h_hi), ag,
                         alpha_thresh_med_h[1], alpha_thresh_med_h[2], 8, 5, 2)
        c3 == assign_bin(c2, mask_h_high(Hg, h_hi), ag,
                         alpha_thresh_high_h[1], alpha_thresh_high_h[2], 9, 6, 3)
    IN  apply_nodata(c3, derive_mask(Hg, ag, mask))

------------------------------------------------------------------------------
(* IO helpers *)

\* What GDAL reports for a dataset without georeferencing: GetGeoTransform()
\* gives the identity transform and GetProjection() the empty string.
IdentityGeo == "(0,1,0,0,0,1)"
NoProj == ""

\* A file is [gdal, data, geo, proj, nodata]: gdal says whether gdal.Open reads
\* it; data is band 1 of a GDAL dataset, or the elements of a raw binary.
read_with_gdal(f) ==
    IF ~f.gdal THEN None
    ELSE Some([array |-> f.data, geo |-> f.geo, proj |-> f.proj, nodata |-> f.nodata])

Min(a, b) == IF a <= b THEN a ELSE b

\* np.fromfile(path, count=count) reads at most count elements.
fromfile(f, count) == SubSeq(f.data, 1, Min(count, Len(f.data)))

\* read_raw_binary without its size check.
read_raw_binary_unchecked(f, width, height) ==
    [ok |-> TRUE, err |-> "", array |-> fromfile(f, width * height)]

read_raw_binary(f, width, height) ==
    LET count == width * height
        a == fromfile(f, count)
    IN  IF Len(a) # count
        THEN [ok |-> FALSE, err |-> "Raw file size mismatch", array |-> <<>>]
        ELSE [ok |-> TRUE, err |-> "", array |-> a]

Failed(msg) ==
    [ok |-> FALSE, err |-> msg, array |-> <<>>, geo |-> "None", proj |-> "None", nodata |-> None]

ensure_loaded(f, width, height) ==
    LET g == read_with_gdal(f)
    IN  IF g # None
        THEN [ok |-> TRUE, err |-> "", array |-> g[1].array, geo |-> g[1].geo,
              proj |-> g[1].proj, nodata |-> g[1].nodata]
        ELSE IF width = None \/ height = None
        THEN Failed("width & height required for raw binary inputs")
        ELSE LET r == read_raw_binary(f, width[1], height[1])
             IN  IF ~r.ok THEN Failed(r.err)
                 ELSE [ok |-> TRUE, err |-> "", array |-> r.array, geo |-> "None",
                       proj |-> "None", nodata |-> None]

------------------------------------------------------------------------------
(* H/alpha helpers *)

\* The larger of two floats as np.nanmax folds them: a NaN is skipped.
fmax(x, y) == IF isnan(x) THEN y ELSE IF isnan(y) THEN x ELSE IF FLe(x, y) THEN y ELSE x

RECURSIVE nanmax_upto(_, _)
nanmax_upto(a, n) == IF n = 0 THEN NaN ELSE fmax(nanmax_upto(a, n - 1), a[n])

\* np.nanmax: the maximum of the entries that are not NaN; NaN when all are.
nanmax(a) == nanmax_upto(a, Len(a))

RadiansLimit == 1700

autodetect_alpha_units(alpha_arr) ==
    IF FLe(nanmax(alpha_arr), Num(RadiansLimit)) THEN "radians" ELSE "degrees"

\* np.degrees on one value: x * 180 / pi = x * 57.296, in thousandths (the
\* product is split so that it stays within 32 bits); NaN and the infinities
\* are kept.
degrees(x) ==
    IF isfinite(x)
    THEN Num((x.v \div 1000) * 57296 + ((x.v % 1000) * 57296) \div 1000)
    ELSE x

\* The conversion decided pixel by pixel instead of once for the grid.
per_pixel_to_degrees(alpha_arr) ==
    [i \in DOMAIN alpha_arr |->
        IF FLe(alpha_arr[i], Num(RadiansLimit)) THEN degrees(alpha_arr[i]) ELSE alpha_arr[i]]

convert_alpha_to_degrees(alpha_arr) ==
    IF autodetect_alpha_units(alpha_arr) = "radians"
    THEN [i \in DOMAIN alpha_arr |-> degrees(alpha_arr[i])]
    ELSE alpha_arr

------------------------------------------------------------------------------
(* Colour table and writer *)

\* The (R, G, B) of classes 0..9, at index class + 1.
get_esa_colortable ==
    << <<0, 0, 0>>, <<255, 165, 0>>, <<204, 0, 0>>, <<128, 0, 64>>, <<255, 204, 0>>,
       <<0, 255, 0>>, <<0, 100, 0>>, <<0, 204, 204>>, <<0, 51, 153>>, <<153, 51, 153>> >>

\* Python's truth value of geo / proj: None and the empty string are false.
Truthy(x) == x # "None" /\ x # ""

write_paletted_geotiff(arr_byte, g, p) ==
    [array |-> arr_byte,
     geo |-> IF Truthy(g) THEN g ELSE "unset",
     proj |-> IF Truthy(p) THEN p ELSE "unset",
     nodata |-> 0]

------------------------------------------------------------------------------
(* main *)

\* mask1 / mask2: the sentinel when one is declared, NaN otherwise.
raster_mask(a, nd) ==
    [i \in DOMAIN a |-> IF nd # None THEN FEq(a[i], nd[1]) ELSE isnan(a[i])]

\* Lines 349-350 (no_clamp: the two assignments left out).
no_clamp(a) == a
clamp(a) ==
    [i \in DOMAIN a |->
        IF FGt(a[i], Num(1000)) THEN Num(1000)
        ELSE IF FLt(a[i], Num(0)) THEN Num(0)
        ELSE a[i]]

Step(from, to) ==
    /\ pc = from
    /\ pc' = to
    /\ steps' = Append(steps, from)

LoadH ==
    LET r == ensure_loaded(h_file, args.width, args.height)
    IN  /\ r.ok
        /\ Step("load_h", "load_alpha")
        /\ H' = r.array
        /\ geo' = r.geo
        /\ proj' = r.proj
        /\ nodata' = r.nodata
        /\ UNCHANGED <<args, h_file, alpha_file, Alpha, geo2, proj2, nodata2,
                       alpha_deg, nodata_mask, mask_used, cls, out_tif, out_png>>

LoadHFails ==
    /\ ~ensure_loaded(h_file, args.width, args.height).ok
    /\ Step("load_h", "error")
    /\ UNCHANGED <<args, h_file, alpha_file, H, Alpha, geo, proj, nodata, geo2, proj2,
                   nodata2, alpha_deg, nodata_mask, mask_used, cls, out_tif, out_png>>

LoadAlpha ==
    LET r == ensure_loaded(alpha_file, args.width, args.height)
    IN  /\ r.ok
        /\ Step("load_alpha", "georef")
        /\ Alpha' = r.array
        /\ geo2' = r.geo
        /\ proj2' = r.proj
        /\ nodata2' = r.nodata
        /\ UNCHANGED <<args, h_file, alpha_file, H, geo, proj, nodata,
                       alpha_deg, nodata_mask, mask_used, cls, out_tif, out_png>>

LoadAlphaFails ==
    /\ ~ensure_loaded(alpha_file, args.width, args.height).ok
    /\ Step("load_alpha", "error")
    /\ UNCHANGED <<args, h_file, alpha_file, H, Alpha, geo, proj, nodata, geo2, proj2,
                   nodata2, alpha_deg, nodata_mask, mask_used, cls, out_tif, out_png>>

\* Lines 328-331.
CarryGeoref ==
    /\ Step("georef", "convert")
    /\ geo' = IF geo = "None" /\ geo2 # "None" THEN geo2 ELSE geo
    /\ proj' = IF proj = "None" /\ proj2 # "None" THEN proj2 ELSE proj
    /\ UNCHANGED <<args, h_file, alpha_file, H, Alpha, nodata, geo2, proj2, nodata2,
                   alpha_deg, nodata_mask, mask_used, cls, out_tif, out_png>>

ConvertAlpha ==
    /\ Step("convert", "mask")
    /\ alpha_deg' = convert_alpha_to_degrees(Alpha)
    /\ UNCHANGED <<args, h_file, alpha_file, H, Alpha, geo, proj, nodata, geo2, proj2,
                   nodata2, nodata_mask, mask_used, cls, out_tif, out_png>>

ComposeMask ==
    /\ Step("mask", "clamp")
    /\ nodata_mask' =
          Some([i \in DOMAIN H |-> raster_mask(H, nodata)[i] \/ raster_mask(Alpha, nodata2)[i]])
    /\ UNCHANGED <<args, h_file, alpha_file, H, Alpha, geo, proj, nodata, geo2, proj2,
                   nodata2, alpha_deg, mask_used, cls, out_tif, out_png>>

ClampH ==
    /\ Step("clamp", "classify")
    /\ H' = clamp(H)
    /\ UNCHANGED <<args, h_file, alpha_file, Alpha, geo, proj, nodata, geo2, proj2,
                   nodata2, alpha_deg, nodata_mask, mask_used, cls, out_tif, out_png>>

Classify ==
    /\ Step("classify", "write_tif")
    /\ cls' = classify_9zones(H, alpha_deg, args.h_thresh, args.alpha_thresh_low_h,
                              args.alpha_thresh_med_h, args.alpha_thresh_high_h, nodata_mask)
    /\ mask_used' = derive_mask(H, alpha_deg, nodata_mask)
    /\ UNCHANGED <<args, h_file, alpha_file, H, Alpha, geo, proj, nodata, geo2, proj2,
                   nodata2, alpha_deg, nodata_mask, out_tif, out_png>>

WriteGeoTIFF ==
    /\ Step("write_tif", "write_png")
    /\ out_tif' = Some(write_paletted_geotiff(cls, geo, proj))
    /\ UNCHANGED <<args, h_file, alpha_file, H, Alpha, geo, proj, nodata, geo2, proj2,
                   nodata2, alpha_deg, nodata_mask, mask_used, cls, out_png>>

WriteQuicklook ==
    /\ Step("write_png", "done")
    /\ out_png' = Some([i \in DOMAIN cls |-> get_esa_colortable[cls[i] + 1]])
    /\ UNCHANGED <<args, h_file, alpha_file, H, Alpha, geo, proj, nodata, geo2, proj2,
                   nodata2, alpha_deg, nodata_mask, mask_used, cls, out_tif>>

------------------------------------------------------------------------------
(* The inputs of a run of main: the command line and the two files *)

DefaultArgs ==
    [width |-> None, height |-> None, h_thresh |-> <<Num(500), Num(900)>>,
     alpha_thresh_low_h |-> <<Num(42500), Num(52500)>>,
     alpha_thresh_med_h |-> <<Num(40000), Num(50000)>>,
     alpha_thresh_high_h |-> <<Num(45000), Num(55000)>>]

Georeferenced == "(500000,30,0,4600000,0,-30)"
Projected == "EPSG:32633"

GdalFile(data, g, p, nd) == [gdal |-> TRUE, data |-> data, geo |-> g, proj |-> p, nodata |-> nd]
RawFile(data) == [gdal |-> FALSE, data |-> data, geo |-> "None", proj |-> "None", nodata |-> None]

HVals == {Num(0 - 100), Num(0), Num(1000), Num(1050), NaN}
AlphaVals == {Num(1200), Num(45000), Num(0 - 9999000), NaN}

\* The two rasters of a run have the same shape (main neither checks nor
\* aligns shapes) and both files exist.
\*
\* Georeferenced GDAL rasters of GridLen pixels, every pixel content, each
\* with or without a declared nodata sentinel.
PixelRuns ==
    { <<[DefaultArgs EXCEPT !.h_thresh = ht],
        GdalFile(hd, Georeferenced, Projected, hn),
        GdalFile(ad, Georeferenced, Projected, an)>> :
        ht \in {<<Num(500), Num(900)>>, <<Num(0 - 50), Num(1000)>>},
        hd \in Grid(HVals, GridLen), hn \in {None, Some(Num(0))},
        ad \in Grid(AlphaVals, GridLen), an \in {None, Some(Num(0 - 9999000))} }

Flat(x, n) == [i \in 1..n |-> x]

\* Every kind of file for H and for Alpha: GDAL rasters with and without
\* georeferencing, raw binaries one element short, exact and one element
\* long, with and without --width / --height.
FileKinds(x) ==
    { GdalFile(Flat(x, GridLen), g, p, None) : g \in {IdentityGeo, Georeferenced},
                                                p \in {NoProj, Projected} }
    \cup { RawFile(Flat(x, n)) : n \in {GridLen - 1, GridLen, GridLen + 1} }

LoaderRuns ==
    { <<[DefaultArgs EXCEPT !.width = w, !.height = h], hf, af>> :
        w \in {None, Some(GridLen)}, h \in {None, Some(1)},
        hf \in FileKinds(Num(700)), af \in FileKinds(Num(45000)) }

InitRun(run) ==
    /\ args = run[1]
    /\ h_file = run[2]
    /\ alpha_file = run[3]
    /\ pc = "load_h"
    /\ H = <<>>
    /\ Alpha = <<>>
    /\ geo = "None"
    /\ proj = "None"
    /\ nodata = None
    /\ geo2 = "None"
    /\ proj2 = "None"
    /\ nodata2 = None
    /\ alpha_deg = <<>>
    /\ nodata_mask = None
    /\ mask_used = <<>>
    /\ cls = <<>>
    /\ out_tif = None
    /\ out_png = None
    /\ steps = <<>>

Init == \E run \in PixelRuns \cup LoaderRuns : InitRun(run)

Next ==
    \/ LoadH
    \/ LoadHFails
    \/ LoadAlpha
    \/ LoadAlphaFails
    \/ CarryGeoref
    \/ ConvertAlpha
    \/ ComposeMask
    \/ ClampH
    \/ Classify
    \/ WriteGeoTIFF
    \/ WriteQuicklook

Spec == Init /\ [][Next]_vars

------------------------------------------------------------------------------
(* classify_9zones called on its own: one pixel, every threshold ordering,  *)
(* with and without an explicit mask                                        *)

ThreshPairs(lo, hi) == {<<lo, hi>>, <<hi, lo>>, <<lo, lo>>, <<NaN, hi>>, <<lo, NaN>>}

HPix == {Num(300), Num(500), Num(700), Num(900), Num(950), NaN}
APix == {Num(30000), Num(40000), Num(42500), Num(45000), Num(50000), Num(52500),
         Num(55000), Num(60000), NaN}

ClassifyCalls ==
    { <<[DefaultArgs EXCEPT !.h_thresh = ht, !.alpha_thresh_low_h = t1,
                            !.alpha_thresh_med_h = t2, !.alpha_thresh_high_h = t3],
        <<h>>, <<a>>, m>> :
        ht \in ThreshPairs(Num(500), Num(900)),
        t1 \in ThreshPairs(Num(42500), Num(52500)),
        t2 \in ThreshPairs(Num(40000), Num(50000)),
        t3 \in ThreshPairs(Num(45000), Num(55000)),
        h \in HPix, a \in APix, m \in {None, Some(<<TRUE>>), Some(<<FALSE>>)} }

InitCall(call) ==
    /\ args = call[1]
    /\ H = call[2]
    /\ alpha_deg = call[3]
    /\ nodata_mask = call[4]
    /\ pc = "classify"
    /\ h_file = RawFile(<<>>)
    /\ alpha_file = RawFile(<<>>)
    /\ Alpha = <<>>
    /\ geo = "None"
    /\ proj = "None"
    /\ nodata = None
    /\ geo2 = "None"
    /\ proj2 = "None"
    /\ nodata2 = None
    /\ mask_used = <<>>
    /\ cls = <<>>
    /\ out_tif = None
    /\ out_png = None
    /\ steps = <<>>

InitClassify == \E call \in ClassifyCalls : InitCall(call)

NextClassify == Classify

SpecClassify == InitClassify /\ [][NextClassify]_vars

------------------------------------------------------------------------------
(* convert_alpha_to_degrees called on its own: every alpha grid of up to     *)
(* GridLen values                                                           *)

AlphaGridVals ==
    {Num(500), Num(1200), Num(1700), Num(1701), Num(80000), NaN, PosInf, NegInf}

AlphaGrids == UNION { Grid(AlphaGridVals, n) : n \in 1..GridLen }

InitAlpha ==
    /\ Alpha \in AlphaGrids
    /\ pc = "convert"
    /\ args = DefaultArgs
    /\ h_file = RawFile(<<>>)
    /\ alpha_file = RawFile(<<>>)
    /\ H = <<>>
    /\ geo = "None"
    /\ proj = "None"
    /\ nodata = None
    /\ geo2 = "None"
    /\ proj2 = "None"
    /\ nodata2 = None
    /\ alpha_deg = <<>>
    /\ nodata_mask = None
    /\ mask_used = <<>>
    /\ cls = <<>>
    /\ out_tif = None
    /\ out_png = None
    /\ steps = <<>>

NextAlpha == ConvertAlpha

SpecAlpha == InitAlpha /\ [][NextAlpha]_vars

------------------------------------------------------------------------------
(* Properties of classify_9zones (SpecClassify) *)

Returned == cls # <<>>

\* The pixel is outside the mask the call was given (or, without one, derived).
Unmasked(i) ==
    IF nodata_mask = None THEN ~(isnan(H[i]) \/ isnan(alpha_deg[i])) ELSE ~nodata_mask[1][i]

NotNaNPixel(i) == ~isnan(H[i]) /\ ~isnan(alpha_deg[i])

OrderedThresholds ==
    /\ FLt(args.h_thresh[1], args.h_thresh[2])
    /\ FLt(args.alpha_thresh_low_h[1], args.alpha_thresh_low_h[2])
    /\ FLt(args.alpha_thresh_med_h[1], args.alpha_thresh_med_h[2])
    /\ FLt(args.alpha_thresh_high_h[1], args.alpha_thresh_high_h[2])

\* The table of section 4.1: row H bin + 1, column alpha sub-bin + 1.
ZoneTable == << <<7, 4, 1>>, <<8, 5, 2>>, <<9, 6, 3>> >>

HBinOf(h) ==
    IF FLe(h, args.h_thresh[1]) THEN 0 ELSE IF FLe(h, args.h_thresh[2]) THEN 1 ELSE 2

BinThresholds(b) ==
    IF b = 0 THEN args.alpha_thresh_low_h
    ELSE IF b = 1 THEN args.alpha_thresh_med_h
    ELSE args.alpha_thresh_high_h

SubBinOf(a, t) == IF FLe(a, t[1]) THEN 0 ELSE IF FLe(a, t[2]) THEN 1 ELSE 2

TableClass(i) ==
    ZoneTable[HBinOf(H[i]) + 1][SubBinOf(alpha_deg[i], BinThresholds(HBinOf(H[i]))) + 1]

\* C1: with ordered thresholds, every pixel outside the mask whose H and alpha
\* are not NaN gets exactly the table entry of its H bin and of its alpha
\* sub-bin under that bin's own pair; a value equal to a threshold is in the
\* lower bin.
C1_TableFidelity ==
    Returned =>
        \A i \in DOMAIN cls :
            (OrderedThresholds /\ Unmasked(i) /\ NotNaNPixel(i)) => cls[i] = TableClass(i)

\* A Low pixel with H equal to h_low and alpha equal to the bin's a_high.
C1_Witness ==
    /\ Returned
    /\ OrderedThresholds
    /\ nodata_mask = Some(<<FALSE>>)
    /\ H[1] = args.h_thresh[1]
    /\ alpha_deg[1] = args.alpha_thresh_low_h[2]
    /\ cls[1] = 4

\* C3: a pixel in the nodata mask is 0 whatever its values and the thresholds,
\* and without an explicit mask the mask is the pixels whose H or alpha is NaN.
C3_NodataDominance ==
    Returned =>
        \A i \in DOMAIN cls :
            /\ (nodata_mask # None /\ nodata_mask[1][i]) => cls[i] = 0
            /\ mask_used[i] => cls[i] = 0
            /\ nodata_mask = None => (mask_used[i] <=> (isnan(H[i]) \/ isnan(alpha_deg[i])))

\* A masked pixel that the default thresholds would put in class 5.
C3_Witness ==
    /\ Returned
    /\ args = DefaultArgs
    /\ nodata_mask = Some(<<TRUE>>)
    /\ H[1] = Num(700)
    /\ alpha_deg[1] = Num(45000)
    /\ cls[1] = 0

\* The nine masks of lines 123-143 at pixel i, in code order, with their class.
AssignmentsAt(i) ==
    LET lo == mask_h_low(H, args.h_thresh[1])
        me == mask_h_med(H, args.h_thresh[1], args.h_thresh[2])
        hi == mask_h_high(H, args.h_thresh[2])
        t1 == args.alpha_thresh_low_h
        t2 == args.alpha_thresh_med_h
        t3 == args.alpha_thresh_high_h
    IN  << <<sub_bin0(lo, alpha_deg, t1[1])[i], 7>>,
           <<sub_bin1(lo, alpha_deg, t1[1], t1[2])[i], 4>>,
           <<sub_bin2(lo, alpha_deg, t1[2])[i], 1>>,
           <<sub_bin0(me, alpha_deg, t2[1])[i], 8>>,
           <<sub_bin1(me, alpha_deg, t2[1], t2[2])[i], 5>>,
           <<sub_bin2(me, alpha_deg, t2[2])[i], 2>>,
           <<sub_bin0(hi, alpha_deg, t3[1])[i], 9>>,
           <<sub_bin1(hi, alpha_deg, t3[1], t3[2])[i], 6>>,
           <<sub_bin2(hi, alpha_deg, t3[2])[i], 3>> >>

TrueMasksAt(i) == {k \in 1..9 : AssignmentsAt(i)[k][1]}

\* The class of the last assignment, in code order, whose mask holds at i.
LastAssigned(i) ==
    IF TrueMasksAt(i) = {} THEN 0
    ELSE AssignmentsAt(i)[CHOOSE k \in TrueMasksAt(i) : \A m \in TrueMasksAt(i) : m <= k][2]

NoNaNThreshold ==
    \A t \in {args.h_thresh, args.alpha_thresh_low_h, args.alpha_thresh_med_h,
              args.alpha_thresh_high_h} : ~isnan(t[1]) /\ ~isnan(t[2])

\* C10 as stated: whatever the thresholds, the classes are in 0..9, every
\* pixel outside the mask whose H and alpha are not NaN has a nonzero class, and
\* where several masks hold the later assignment is the one kept.
C10_AnyThresholds ==
    Returned =>
        \A i \in DOMAIN cls :
            /\ cls[i] \in 0..9
            /\ (Unmasked(i) /\ NotNaNPixel(i)) => cls[i] \in 1..9
            /\ Unmasked(i) => cls[i] = LastAssigned(i)

\* C10, amended: the classes are in 0..9 and the later assignment is kept
\* whatever the thresholds; every pixel outside the mask whose H and alpha are
\* not NaN has a nonzero class provided no threshold is NaN.
C10_NoNaNThresholds ==
    Returned =>
        \A i \in DOMAIN cls :
            /\ cls[i] \in 0..9
            /\ (NoNaNThreshold /\ Unmasked(i) /\ NotNaNPixel(i)) => cls[i] \in 1..9
            /\ Unmasked(i) => cls[i] = LastAssigned(i)

\* Misordered Low-bin thresholds make sub-bin 0 and sub-bin 2 both hold; the
\* later one, class 1, is kept.
C10_Witness ==
    /\ Returned
    /\ FGt(args.alpha_thresh_low_h[1], args.alpha_thresh_low_h[2])
    /\ nodata_mask = None
    /\ NotNaNPixel(1)
    /\ {1, 3} \subseteq TrueMasksAt(1)
    /\ cls[1] = 1

------------------------------------------------------------------------------
(* Properties of convert_alpha_to_degrees (SpecAlpha) *)

Normalized == alpha_deg # <<>>

AllToDegrees == alpha_deg = [i \in DOMAIN Alpha |-> degrees(Alpha[i])]

AtMostLimit(S) == \A i \in S : FLe(Alpha[i], Num(RadiansLimit))

FiniteEntries == {i \in DOMAIN Alpha : isfinite(Alpha[i])}
NotNaNEntries == {i \in DOMAIN Alpha : ~isnan(Alpha[i])}

\* C5 as stated: the grid is converted as a whole exactly when its maximum
\* finite value is at most 1.7, whatever its NaN and infinite entries.
C5_MaxFiniteDecides ==
    (Normalized /\ FiniteEntries # {}) =>
        IF AtMostLimit(FiniteEntries) THEN AllToDegrees ELSE alpha_deg = Alpha

\* C5, amended: the grid is converted as a whole exactly when it has an entry
\* that is not NaN and its maximum over those entries (an infinity included)
\* is at most 1.7; otherwise every value is passed through unchanged.
C5_MaxNotNaNDecides ==
    Normalized =>
        IF NotNaNEntries # {} /\ AtMostLimit(NotNaNEntries)
        THEN AllToDegrees
        ELSE alpha_deg = Alpha

\* A radians grid with a NaN entry: converted as a whole, the NaN kept.
C5_Witness ==
    /\ Normalized
    /\ Len(Alpha) = 2
    /\ Alpha[1] = Num(1200)
    /\ isnan(Alpha[2])
    /\ alpha_deg[1] = Num(68755)
    /\ isnan(alpha_deg[2])

------------------------------------------------------------------------------
(* Properties of main (Spec) *)

\* The pixels main loaded, before the clamp.
RawH == h_file.data
RawAlpha == alpha_file.data

Classified == cls # <<>>

\* C2: every pixel where the nodata mask is false has a nonzero class.
C2_UnmaskedIsClassified ==
    Classified => \A i \in DOMAIN cls : ~nodata_mask[1][i] => cls[i] \in 1..9

Invalid(x, nd) == isnan(x) \/ (nd # None /\ x = nd[1])

\* C8: the mask composed by main is true exactly where the H value or the
\* Alpha value is its raster's declared nodata sentinel or NaN.
C8_MaskIsInvalidPixels ==
    nodata_mask # None =>
        \A i \in DOMAIN nodata_mask[1] :
            nodata_mask[1][i] <=> (Invalid(RawH[i], nodata) \/ Invalid(RawAlpha[i], nodata2))

\* Pixel i carries an out-of-range H and pixel j the bound it is clamped to.
ClampPair(i, j) ==
    /\ RawAlpha[i] = RawAlpha[j]
    /\ \/ FGt(RawH[i], Num(1000)) /\ RawH[j] = Num(1000)
       \/ FLt(RawH[i], Num(0)) /\ RawH[j] = Num(0)

IsSentinel(x) == nodata # None /\ FEq(x, nodata[1])

\* C4 as stated: an H above 1 gets the class of H = 1.0 and an H below 0 the
\* class of H = 0.0, for every alpha, threshold set and declared H sentinel.
C4_ClampedLikeBound ==
    Classified =>
        \A i, j \in DOMAIN cls : ClampPair(i, j) => cls[i] = cls[j]

\* C4, amended: the same, provided neither of the two H values is the H
\* raster's declared nodata sentinel (the mask is composed before the clamp).
C4_ClampedLikeBoundOffSentinel ==
    Classified =>
        \A i, j \in DOMAIN cls :
            (ClampPair(i, j) /\ ~IsSentinel(RawH[i]) /\ ~IsSentinel(RawH[j])) => cls[i] = cls[j]

\* H = 1.05 beside H = 1.0 under h_high = 1.0, with a sentinel declared: both
\* are classified, and alike.
C4_Witness ==
    /\ Classified
    /\ nodata # None
    /\ args.h_thresh[2] = Num(1000)
    /\ RawH[1] = Num(1050)
    /\ RawH[2] = Num(1000)
    /\ RawAlpha[1] = Num(45000)
    /\ RawAlpha[2] = Num(45000)
    /\ cls[1] = 5
    /\ cls[2] = 5

\* C6: a raw binary loads only when it holds exactly width * height elements.
C6_RawLoadNeedsExactSize ==
    /\ (H # <<>> /\ ~h_file.gdal) => Len(h_file.data) = args.width[1] * args.height[1]
    /\ (Alpha # <<>> /\ ~alpha_file.gdal) => Len(alpha_file.data) = args.width[1] * args.height[1]

SuppliesGeo(f) == f.gdal /\ f.geo # IdentityGeo
SuppliesProj(f) == f.gdal /\ f.proj # NoProj

\* C7: the output carries H's geotransform and projection when H supplies
\* them, and otherwise Alpha's when Alpha supplies them.
C7_GeorefHThenAlpha ==
    out_tif # None =>
        /\ SuppliesGeo(h_file) => out_tif[1].geo = h_file.geo
        /\ (~SuppliesGeo(h_file) /\ SuppliesGeo(alpha_file)) => out_tif[1].geo = alpha_file.geo
        /\ SuppliesProj(h_file) => out_tif[1].proj = h_file.proj
        /\ (~SuppliesProj(h_file) /\ SuppliesProj(alpha_file)) => out_tif[1].proj = alpha_file.proj

StageOrder ==
    <<"load_h", "load_alpha", "georef", "convert", "mask", "clamp", "classify",
      "write_tif", "write_png">>

\* The file cannot be loaded: GDAL does not read it and a dimension is missing
\* or the file is shorter than width * height.
LoadFails(f) ==
    /\ ~f.gdal
    /\ \/ args.width = None
       \/ args.height = None
       \/ Len(f.data) < args.width[1] * args.height[1]

NothingProduced == cls = <<>> /\ out_tif = None /\ out_png = None

\* C9: the stages run in the one order; a failed load of H or of Alpha ends
\* the run in error before the classifier runs and before anything is written.
C9_SequentialAndFatal ==
    /\ steps = SubSeq(StageOrder, 1, Len(steps))
    /\ pc = "done" => steps = StageOrder
    /\ pc = "error" => NothingProduced
    /\ LoadFails(h_file) => (pc \in {"load_h", "error"} /\ Len(steps) <= 1 /\ NothingProduced)
    /\ LoadFails(alpha_file) =>
          (pc \in {"load_h", "load_alpha", "error"} /\ Len(steps) <= 2 /\ NothingProduced)

\* H loaded, then the Alpha raw binary is too short: the run ends in error.
C9_Witness ==
    /\ pc = "error"
    /\ steps = <<"load_h", "load_alpha">>
    /\ H # <<>>
    /\ args.width # None
    /\ args.height # None
    /\ Len(alpha_file.data) < args.width[1] * args.height[1]
    /\ NothingProduced

====
